---- MODULE Spec2Model ----
(***************************************************************************)
(* Model of typing_schema: the recursive conversion of a Python type      *)
(* annotation into a JSON-schema document (typing_schema/converter.py),   *)
(* and of its two entry points (typing_schema/__init__.py).               *)
(*                                                                         *)
(* A type annotation is a record with a `kind`; a schema is a record      *)
(* whose domain is the key set of the Python dict.  The value of a        *)
(* schema's "type" key is a tree (TypeName / TypeList), because the code  *)
(* can nest lists there.  A dict that the caller's type_handler hands     *)
(* out by reference is a cell of `registry`; inside a schema under        *)
(* construction it appears as [ref |-> id], so that the converter's       *)
(* item assignments (schema["description"] = ..., schema["default"] = ..) *)
(* land in the shared cell exactly as they do in Python.                  *)
(*                                                                         *)
(* The optional pydantic delegate (converter.py 73-80, 167-170) is left   *)
(* out of the annotation universe: no annotation below carries a          *)
(* model_json_schema attribute, so that step never produces a schema.     *)
(***************************************************************************)
EXTENDS Naturals, Sequences, FiniteSets, TLC

VARIABLES opts, registry, before, pc, call, input, result, required, handler_calls

vars == <<opts, registry, before, pc, call, input, result, required, handler_calls>>

(***************************************************************************)
(* opts           the caller's three options, the same for every call     *)
(* registry       the schema dicts the caller's lookup handler hands out  *)
(* before         registry as it was when the last call started           *)
(* pc             "idle", or "returned" while the caller holds a result   *)
(* call, input    the entry point last called and its argument            *)
(* result         what the call returned (a schema) or raised             *)
(* required       the flag _convert_core returned beside the schema       *)
(* handler_calls  the arguments of the type_handler's calls, in order     *)
(***************************************************************************)

Range(s) == {s[i] : i \in 1..Len(s)}

(***************************************************************************)
(* Python values (parameter defaults, Literal arguments, enum values,     *)
(* Annotated metadata): the class of the value and its text.              *)
(***************************************************************************)
Val(py, repr) == [py |-> py, repr |-> repr]

Empty == Val("empty", "")

(***************************************************************************)
(* Type annotations.                                                      *)
(***************************************************************************)
Prim(n) == [kind |-> "prim", name |-> n]

NoneType == [kind |-> "none", name |-> "NoneType"]

\* An object no built-in rule matches and that is not callable (a TypeVar).
Other(n) == [kind |-> "other", name |-> n]

\* inspect.Parameter.empty as a parameter's annotation.
EmptyAnnotation == [kind |-> "empty", name |-> "empty"]

DictOf(n) == [kind |-> "dict_of", name |-> n]

UnionOf(args) == [kind |-> "union", args |-> args]

ArrayOf(args) == [kind |-> "array", args |-> args]

AnnotatedOf(inner, meta) == [kind |-> "annotated", args |-> <<inner>>, meta |-> meta]

LiteralOf(values) == [kind |-> "literal", values |-> values]

EnumOf(values) == [kind |-> "enum", values |-> values]

Field(n, t) == [name |-> n, type |-> t]

RecordOf(fields, doc) == [kind |-> "record", fields |-> fields, doc |-> doc]

Param(n, k, ann, dflt) == [name |-> n, kind |-> k, annotation |-> ann, default |-> dflt]

FunctionOf(params, doc) == [kind |-> "function", params |-> params, doc |-> doc]

(***************************************************************************)
(* Schemas.                                                               *)
(***************************************************************************)
TypeName(n) == [isList |-> FALSE, name |-> n, items |-> <<>>]

TypeList(items) == [isList |-> TRUE, name |-> "", items |-> items]

ValueSchema(t) == [type |-> t]

ArraySchema(items) == [type |-> TypeName("array"), items |-> items]

ObjectSchema == [type |-> TypeName("object")]

ObjectSchemaOf(properties, req) ==
    [type |-> TypeName("object"), properties |-> properties, required |-> req]

ConstraintSchema(v) == [const |-> v]

EnumSchema(values) == [enum |-> values]

OneOfSchema(schemas) == [oneOf |-> schemas]

\* What a type_handler returns when it declines (None).
NoSchema == [none |-> TRUE]

Ref(id) == [ref |-> id]

IsRef(s) == "ref" \in DOMAIN s

\* Item assignment on a Python dict: d[k] = v.
SetItem(d, k, v) == (k :> v) @@ d

\* The dict a schema stands for, given the shared cells.
Deref(s, heap) == IF IsRef(s) THEN heap[s.ref] ELSE s

HasKey(s, heap, k) == k \in DOMAIN Deref(s, heap)

\* schema[k] = v: on a shared dict the cell changes, otherwise the dict itself.
Assign(s, heap, k, v) ==
    IF IsRef(s)
    THEN [schema |-> s, heap |-> [heap EXCEPT ![s.ref] = SetItem(@, k, v)]]
    ELSE [schema |-> SetItem(s, k, v), heap |-> heap]

RECURSIVE Resolve(_, _)
\* The schema as the caller reads it: every shared dict replaced by its content.
Resolve(s, heap) ==
    LET d == Deref(s, heap)
    IN  [k \in DOMAIN d |->
            IF k = "items" THEN Resolve(d[k], heap)
            ELSE IF k = "oneOf"
                 THEN [i \in 1..Len(d[k]) |-> Resolve(d[k][i], heap)]
            ELSE IF k = "properties"
                 THEN [i \in 1..Len(d[k]) |->
                          [name |-> d[k][i].name,
                           schema |-> Resolve(d[k][i].schema, heap)]]
            ELSE d[k]]

(***************************************************************************)
(* The caller's hooks.  A converter is built from three options           *)
(* (converter.py 63-71): raise_when_unsupported, type_handler and         *)
(* annotated_doc_handler.  The hooks are the caller's code, not the       *)
(* repository's.  Those modelled: the handler answering every type with   *)
(* one schema (tests/test_model.py 239-240), and a caller's lookup of the *)
(* type in a table of schema dicts (table.get(type)), handing out either  *)
(* a copy ("fresh") or the table's dict itself ("shared").  The table     *)
(* has an entry for a type variable T and one for Optional[T]; typing     *)
(* compares unions without regard to the order of their members, so the  *)
(* lookup finds Union[None, T] under Optional[T].                         *)
(***************************************************************************)
TypeVarT == Other("T")

OptionalT == UnionOf(<<TypeVarT, NoneType>>)

HandledSchema == [type |-> TypeName("number"), description |-> "Handled by custom handler"]

\* The table of the lookup handler, as the caller built it.
InitialRegistry ==
    [plain |-> [type |-> TypeName("string")],
     optional |-> [type |-> TypeName("string"), description |-> "Handled string type"]]

\* t == Optional[T], as typing compares: both are unions of the same members.
EqualsOptionalT(t) ==
    /\ t.kind = "union"
    /\ Range(t.args) = Range(OptionalT.args)

RegistryKey(t) ==
    IF t = TypeVarT THEN "plain" ELSE IF EqualsOptionalT(t) THEN "optional" ELSE ""

Handlers == {"none", "all", "fresh", "shared"}

\* type_handler(object): a schema, or NoSchema for None.
TypeHandler(h, t) ==
    IF h = "all" THEN HandledSchema
    ELSE IF h \in {"fresh", "shared"} /\ RegistryKey(t) # ""
         THEN IF h = "shared" THEN Ref(RegistryKey(t))
              ELSE InitialRegistry[RegistryKey(t)]
    ELSE NoSchema

NoneValue == Val("NoneType", "None")

RECURSIVE FirstOfClass(_, _, _)
\* The first element of args[i..] that is an instance of class py, else None.
FirstOfClass(args, i, py) ==
    IF i > Len(args) THEN NoneValue
    ELSE IF args[i].py = py THEN args[i]
    ELSE FirstOfClass(args, i + 1, py)

\* _Converter._hande_annotated_doc: the first str among args[1:].  `meta` is
\* args[1:], the values after the wrapped type.
hande_annotated_doc(meta) == FirstOfClass(meta, 1, "str")

\* The doc_handler of the tests: the value of the first Doc(...) among the
\* arguments (the wrapped type, args[0], is never a Doc).
doc_handler(meta) ==
    LET d == FirstOfClass(meta, 1, "Doc")
    IN  IF d = NoneValue THEN NoneValue ELSE Val("str", d.repr)

DocHandlers == {"none", "doc_handler"}

\* self.to_doc = annotated_doc_handler or self._hande_annotated_doc
to_doc(self, meta) ==
    IF self.annotated_doc_handler = "doc_handler" THEN doc_handler(meta)
    ELSE hande_annotated_doc(meta)

\* Python truth of an extracted doc or a __doc__: a non-empty str.
Truthy(v) == v.py = "str" /\ v.repr # ""

(***************************************************************************)
(* _Converter.  `st` carries what a conversion changes as it runs: the    *)
(* caller's shared dicts (heap) and the arguments the type_handler was    *)
(* called with, in order (log).                                           *)
(***************************************************************************)
Ok(s, r, st) ==
    [ok |-> TRUE, schema |-> s, required |-> r, heap |-> st.heap, log |-> st.log]

\* raise ValueError(msg)
Raise(msg, st) ==
    [ok |-> FALSE, schema |-> [error |-> msg], required |-> FALSE,
     heap |-> st.heap, log |-> st.log]

StateOf(r) == [heap |-> r.heap, log |-> r.log]

Mapping(n) ==
    CASE n = "str" -> "string"
      [] n = "int" -> "integer"
      [] n = "float" -> "number"
      [] n = "bool" -> "boolean"
      [] n = "dict" -> "object"
      [] n = "list" -> "array"

\* type(param.default) for the defaults of the model.
TypeOfValue(v) == IF v.py = "NoneType" THEN NoneType ELSE Prim(v.py)

\* v's value handed to F: the Python statement `x = v` followed by the code
\* that reads x.  F sees a value, so v is computed once however often F reads it.
Then(v, F(_)) == CHOOSE y \in {F(x) : x \in {v}} : TRUE

RECURSIVE convert_core(_, _, _)
RECURSIVE convert_union(_, _, _)
RECURSIVE convert_function(_, _, _)
RECURSIVE ConvertEach(_, _, _, _, _)
RECURSIVE ConvertFields(_, _, _, _, _, _)
RECURSIVE ConvertParams(_, _, _, _, _, _)

\* [self._convert_core(ann)[0] for ann in annotations], from index i on.
ConvertEach(self, annotations, i, st, schemas) ==
    IF i > Len(annotations)
    THEN [ok |-> TRUE, schemas |-> schemas, heap |-> st.heap, log |-> st.log]
    ELSE Then(convert_core(self, annotations[i], st), LAMBDA r :
            IF ~r.ok THEN r
            ELSE ConvertEach(self, annotations, i + 1, StateOf(r),
                             Append(schemas, r.schema)))

\* The test of lines 101-103 on one member schema.
IsScalarSchema(s, heap) ==
    /\ HasKey(s, heap, "type")
    /\ Deref(s, heap).type \notin {TypeName("array"), TypeName("object")}

\* ConvertMembers with None left out of the members, the way Optional[T] would
\* be made transparent.
ConvertMembersWithoutNone(self, annotations, st, require) ==
    Then(ConvertEach(self, SelectSeq(annotations, LAMBDA a : a # NoneType), 1, st, <<>>),
         LAMBDA rs :
        IF ~rs.ok THEN rs
        ELSE IF Len(rs.schemas) = 1 THEN Ok(rs.schemas[1], require, StateOf(rs))
        ELSE IF \A i \in 1..Len(rs.schemas) : IsScalarSchema(rs.schemas[i], rs.heap)
        THEN Ok(ValueSchema(TypeList([i \in 1..Len(rs.schemas) |->
                                         Deref(rs.schemas[i], rs.heap).type])),
                require, StateOf(rs))
        ELSE Ok(OneOfSchema(rs.schemas), require, StateOf(rs)))

\* Lines 99-109: two members or more.
ConvertMembers(self, annotations, st, require) ==
    Then(ConvertEach(self, annotations, 1, st, <<>>), LAMBDA rs :
        IF ~rs.ok THEN rs
        ELSE IF \A i \in 1..Len(rs.schemas) : IsScalarSchema(rs.schemas[i], rs.heap)
        THEN Ok(ValueSchema(TypeList([i \in 1..Len(rs.schemas) |->
                                         Deref(rs.schemas[i], rs.heap).type])),
                require, StateOf(rs))
        ELSE Ok(OneOfSchema(rs.schemas), require, StateOf(rs)))

\* ConvertSingle passing on the member's own flag.
ConvertSingleTransparent(self, annotations, st, require) ==
    Then(convert_core(self, annotations[1], st), LAMBDA r :
        IF ~r.ok THEN r ELSE Ok(r.schema, r.required, StateOf(r)))

\* Lines 96-97: exactly one member.
ConvertSingle(self, annotations, st, require) ==
    Then(convert_core(self, annotations[1], st), LAMBDA r :
        IF ~r.ok THEN r ELSE Ok(r.schema, require, StateOf(r)))

\* Line 91.
Require(annotations) == ~(NoneType \in Range(annotations))

convert_union(self, annotations, st) ==
    IF Len(annotations) = 0 THEN Ok(ValueSchema(TypeName("null")), FALSE, st)
    ELSE IF Len(annotations) = 1
    THEN ConvertSingle(self, annotations, st, Require(annotations))
    ELSE ConvertMembers(self, annotations, st, Require(annotations))

\* AddField with every field appended to required.
AddFieldAlwaysRequired(field, r, properties, required_items) ==
    [properties |-> Append(properties, [name |-> field.name, schema |-> r.schema]),
     required |-> Append(required_items, field.name)]

\* Lines 213-216: one field of __annotations__; r is what its type converted to.
AddField(field, r, properties, required_items) ==
    [properties |-> Append(properties, [name |-> field.name, schema |-> r.schema]),
     required |-> IF r.required THEN Append(required_items, field.name)
                  ELSE required_items]

\* The loop of lines 212-216 over __annotations__, from index i on.
ConvertFields(self, fields, i, st, properties, required_items) ==
    IF i > Len(fields)
    THEN [ok |-> TRUE, properties |-> properties, required |-> required_items,
          heap |-> st.heap, log |-> st.log]
    ELSE Then(convert_core(self, fields[i].type, st), LAMBDA r :
            IF ~r.ok THEN r
            ELSE Then(AddField(fields[i], r, properties, required_items), LAMBDA n :
                    ConvertFields(self, fields, i + 1, StateOf(r),
                                  n.properties, n.required)))

\* Lines 117-125.
Skipped(param) ==
    param.kind \in {"VAR_POSITIONAL", "VAR_KEYWORD"} \/ param.name = "self"

\* Lines 127-133: the annotation a parameter is converted from.
TestAnnotation(param) ==
    IF param.annotation # EmptyAnnotation THEN param.annotation
    ELSE IF param.default # Empty THEN TypeOfValue(param.default)
    ELSE Prim("dict")

\* Lines 140-146: r is what the parameter's annotation converted to.
AddParam(param, r, properties, req) ==
    Then(IF param.default # Empty
         THEN Assign(r.schema, r.heap, "default", param.default)
         ELSE [schema |-> r.schema, heap |-> r.heap], LAMBDA a :
        [properties |-> Append(properties, [name |-> param.name, schema |-> a.schema]),
         required |-> IF r.required /\ param.default = Empty
                      THEN Append(req, param.name) ELSE req,
         st |-> [heap |-> a.heap, log |-> r.log]])

\* The loop of lines 116-146 over sig.parameters, from index i on.
ConvertParams(self, params, i, st, properties, req) ==
    IF i > Len(params)
    THEN [ok |-> TRUE, properties |-> properties, required |-> req,
          heap |-> st.heap, log |-> st.log]
    ELSE IF Skipped(params[i])
    THEN ConvertParams(self, params, i + 1, st, properties, req)
    ELSE IF /\ params[i].annotation = EmptyAnnotation
            /\ params[i].default = Empty
            /\ self.raise_when_unsupported
    THEN Raise("Parameter is missing a type annotation.", st)
    ELSE Then(convert_core(self, TestAnnotation(params[i]), st), LAMBDA r :
            IF ~r.ok THEN r
            ELSE Then(AddParam(params[i], r, properties, req), LAMBDA n :
                    ConvertParams(self, params, i + 1, n.st, n.properties, n.required)))

\* Lines 148-157 (and 218-225): the object schema and its docstring.
Documented(properties, req, doc) ==
    IF Truthy(doc)
    THEN SetItem(ObjectSchemaOf(properties, req), "description", doc.repr)
    ELSE ObjectSchemaOf(properties, req)

convert_function(self, func, st) ==
    Then(ConvertParams(self, func.params, 1, st, <<>>, <<>>), LAMBDA ps :
        IF ~ps.ok THEN ps
        ELSE Ok(Documented(ps.properties, ps.required, func.doc), TRUE, StateOf(ps)))

\* Describe without the test for an existing description.
DescribeOverwriting(r, doc) ==
    IF Truthy(doc) THEN Assign(r.schema, r.heap, "description", doc.repr)
    ELSE [schema |-> r.schema, heap |-> r.heap]

\* Lines 187-190: the description is set only on a schema that has none.
Describe(r, doc) ==
    IF ~HasKey(r.schema, r.heap, "description") /\ Truthy(doc)
    THEN Assign(r.schema, r.heap, "description", doc.repr)
    ELSE [schema |-> r.schema, heap |-> r.heap]

\* Lines 183-192: the Annotated rule.
ConvertAnnotated(self, object, st) ==
    Then(convert_core(self, object.args[1], st), LAMBDA r :
        IF ~r.ok THEN r
        ELSE Then(Describe(r, to_doc(self, object.meta)), LAMBDA a :
                Ok(a.schema, r.required, [heap |-> a.heap, log |-> r.log])))

\* Lines 207-225: TypedDict and dataclass.
ConvertRecord(self, object, st) ==
    Then(ConvertFields(self, object.fields, 1, st, <<>>, <<>>), LAMBDA fs :
        IF ~fs.ok THEN fs
        ELSE Ok(Documented(fs.properties, fs.required, object.doc), TRUE, StateOf(fs)))

\* Lines 176-181: list[...], tuple[...], set[...].
ConvertArray(self, object, st) ==
    Then(convert_union(self, object.args, st), LAMBDA r :
        IF ~r.ok THEN r ELSE Ok(ArraySchema(r.schema), TRUE, StateOf(r)))

\* Lines 194-201.
ConvertLiteral(object, st) ==
    IF Len(object.values) = 0 THEN Ok(ValueSchema(TypeName("null")), FALSE, st)
    ELSE IF Len(object.values) = 1 THEN Ok(ConstraintSchema(object.values[1]), TRUE, st)
    ELSE Ok(EnumSchema(object.values), TRUE, st)

\* Unsupported with raise_when_unsupported ignored.
UnsupportedNeverRaises(self, st) == Ok(ObjectSchema, TRUE, st)

\* Lines 247-250: no rule matched.
Unsupported(self, st) ==
    IF self.raise_when_unsupported THEN Raise("Unsupported type", st)
    ELSE Ok(ObjectSchema, TRUE, st)

\* Lines 172-250: the built-in rules, first match wins.
ConvertBuiltin(self, object, st) ==
    CASE object.kind = "union" -> convert_union(self, object.args, st)
      [] object.kind = "array" -> ConvertArray(self, object, st)
      [] object.kind = "annotated" -> ConvertAnnotated(self, object, st)
      [] object.kind = "literal" -> ConvertLiteral(object, st)
      [] object.kind = "enum" -> Ok(EnumSchema(object.values), TRUE, st)
      [] object.kind = "record" -> ConvertRecord(self, object, st)
      [] object.kind = "dict_of" -> Ok(ObjectSchema, TRUE, st)
      [] object.kind = "none" -> Ok(ValueSchema(TypeName("null")), FALSE, st)
      [] object.kind = "prim" -> Ok(ValueSchema(TypeName(Mapping(object.name))), TRUE, st)
      [] object.kind = "function" -> convert_function(self, object, st)
      [] OTHER -> Unsupported(self, st)

\* Custom with the built-in union rule taking precedence over the handler.
CustomAfterUnionRule(self, object) ==
    IF self.type_handler # "none" /\ object.kind # "union"
    THEN TypeHandler(self.type_handler, object)
    ELSE NoSchema

\* Lines 162-165: what the type_handler decides for this node.
Custom(self, object) ==
    IF self.type_handler # "none" THEN TypeHandler(self.type_handler, object)
    ELSE NoSchema

\* The type_handler's calls so far, this one included.
Logged(self, object, st) ==
    IF self.type_handler # "none" THEN [st EXCEPT !.log = Append(@, object)] ELSE st

convert_core(self, object, st) ==
    Then(Logged(self, object, st), LAMBDA st1 :
        IF Custom(self, object) # NoSchema THEN Ok(Custom(self, object), TRUE, st1)
        ELSE ConvertBuiltin(self, object, st1))

(***************************************************************************)
(* The annotations the model converts.  Python itself normalises what a   *)
(* caller can write: the members of a Union are distinct and none is a    *)
(* Union, an Annotated never wraps an Annotated, parameter names are      *)
(* distinct.  Every set below keeps to that.                              *)
(***************************************************************************)
MaxMembers == 2

MaxFields == 2

MaxParams == 2

SeqsUpTo(S, lo, hi) == UNION {[1..n -> S] : n \in lo..hi}

Distinct(s) == \A i, j \in 1..Len(s) : i # j => s[i] # s[j]

Str == Prim("str")

Int == Prim("int")

Bool == Prim("bool")

StrX == Val("str", "x")

Pi == Val("float", "3.14")

MetaDoc == <<Val("str", "doc")>>

MetaInt == <<Val("int", "1")>>

MetaDocObject == <<Val("Doc", "The name of the person"), Val("str", "")>>

MetaTwo == <<Val("int", "1"), Val("str", "first"), Val("str", "second")>>

Metas == {MetaDoc, MetaInt, MetaDocObject, MetaTwo}

Leaves ==
    {Prim(n) : n \in {"str", "int", "float", "bool", "dict", "list"}}
    \cup {NoneType, TypeVarT, DictOf("dict[str, str]"),
          LiteralOf(<<>>), LiteralOf(<<Val("str", "fast")>>),
          LiteralOf(<<Val("str", "small"), Val("str", "medium"), Val("str", "large")>>),
          EnumOf(<<Val("int", "100"), Val("int", "200"), Val("int", "300")>>)}

\* Members of a union.
Members == {Str, Int, NoneType, TypeVarT, ArrayOf(<<Str>>), AnnotatedOf(Int, MetaInt)}

Unions == {UnionOf(m) : m \in {x \in SeqsUpTo(Members, 2, MaxMembers) : Distinct(x)}}

AnnotatedLeaves == {AnnotatedOf(t, m) : t \in {Int, TypeVarT}, m \in Metas}

AnnotatedUnions ==
    {AnnotatedOf(UnionOf(u), m) :
        u \in {<<Str, Int>>, <<Str, NoneType>>, <<TypeVarT, NoneType>>}, m \in Metas}

\* Unions with a member that is an Annotated around a union.
NestedUnions ==
    {UnionOf(<<a, b>>) : a \in {AnnotatedOf(UnionOf(<<Str, Int>>), MetaDoc),
                                AnnotatedOf(UnionOf(<<Str, NoneType>>), MetaDoc)},
                         b \in {Bool, NoneType}}
    \cup {UnionOf(<<b, a>>) : a \in {AnnotatedOf(UnionOf(<<Str, Int>>), MetaInt)},
                              b \in {Bool, NoneType}}

\* get_args of list[...], tuple[...], set[...].
ElementLists ==
    SeqsUpTo({Str, Int, NoneType, TypeVarT, UnionOf(<<Int, NoneType>>), OptionalT},
             0, MaxMembers)

Arrays == {ArrayOf(a) : a \in ElementLists}

Names == <<"a", "b", "c", "d">>

FieldTypes ==
    {Int, UnionOf(<<Str, NoneType>>), TypeVarT, OptionalT,
     AnnotatedOf(UnionOf(<<Str, NoneType>>), MetaDoc),
     AnnotatedOf(TypeVarT, MetaDoc), AnnotatedOf(TypeVarT, MetaTwo)}

Docs == {NoneValue, Val("str", "The record item")}

Records ==
    {RecordOf([i \in 1..Len(ts) |-> Field(Names[i], ts[i])], d) :
        ts \in SeqsUpTo(FieldTypes, 1, MaxFields), d \in Docs}

AnnotatedRecords ==
    {AnnotatedOf(RecordOf(<<Field("a", Int)>>, d), m) : d \in Docs, m \in {MetaDoc, MetaInt}}

\* A declared parameter: its annotation and its default.
ParamChoices ==
    {<<Int, Empty>>, <<TypeVarT, Empty>>, <<TypeVarT, StrX>>,
     <<UnionOf(<<Str, NoneType>>), Empty>>, <<UnionOf(<<Bool, NoneType>>), NoneValue>>,
     <<EmptyAnnotation, Pi>>, <<EmptyAnnotation, Empty>>}

Declared(ps) ==
    [i \in 1..Len(ps) |-> Param(Names[i], "POSITIONAL_OR_KEYWORD", ps[i][1], ps[i][2])]

SelfParam == Param("self", "POSITIONAL_OR_KEYWORD", EmptyAnnotation, Empty)

VarArgs == <<Param("args", "VAR_POSITIONAL", EmptyAnnotation, Empty),
             Param("kwargs", "VAR_KEYWORD", EmptyAnnotation, Empty)>>

FunctionDocs == {NoneValue, Val("str", "A sample function")}

Functions ==
    {FunctionOf(Declared(ps), d) :
        ps \in SeqsUpTo(ParamChoices, 1, MaxParams), d \in FunctionDocs}
    \cup {FunctionOf(<<SelfParam>> \o Declared(<<p>>) \o VarArgs, NoneValue) :
            p \in ParamChoices}

Annotations ==
    Leaves \cup Unions \cup NestedUnions \cup AnnotatedLeaves \cup AnnotatedUnions
    \cup Arrays \cup Records \cup AnnotatedRecords \cup Functions

(***************************************************************************)
(* The program: a caller holding three fixed options calls the entry      *)
(* points any number of times.  Each call builds its own _Converter.      *)
(***************************************************************************)
Options ==
    [raise_when_unsupported : BOOLEAN, type_handler : Handlers,
     annotated_doc_handler : DocHandlers]

NoInput == [kind |-> "nothing", name |-> ""]

Start(heap) == [heap |-> heap, log |-> <<>>]

\* What the caller gets: the schema, or the ValueError raised.
Outcome(r) == IF r.ok THEN Resolve(r.schema, r.heap) ELSE r.schema

Init ==
    /\ opts \in Options
    /\ registry = InitialRegistry
    /\ before = InitialRegistry
    /\ pc = "idle"
    /\ call = ""
    /\ input = NoInput
    /\ result = NoSchema
    /\ required = FALSE
    /\ handler_calls = <<>>

Returns(name, arg, r) ==
    /\ pc' = "returned"
    /\ call' = name
    /\ input' = arg
    /\ result' = Outcome(r)
    /\ required' = r.required
    /\ registry' = r.heap
    /\ before' = registry
    /\ handler_calls' = r.log
    /\ UNCHANGED opts

\* typing_schema.typing_to_schema(object, ...)
typing_to_schema ==
    /\ pc = "idle"
    /\ \E object \in Annotations :
          \E r \in {convert_core(opts, object, Start(registry))} :
             Returns("typing_to_schema", object, r)

\* typing_schema.function_to_schema(func, ...)
function_to_schema ==
    /\ pc = "idle"
    /\ \E func \in Functions :
          \E r \in {convert_function(opts, func, Start(registry))} :
             Returns("function_to_schema", func, r)

\* _Converter(...)._convert_union(annotations)
ConvertUnionCall ==
    /\ pc = "idle"
    /\ \E annotations \in ElementLists :
          \E r \in {convert_union(opts, annotations, Start(registry))} :
             Returns("_convert_union", [kind |-> "args", args |-> annotations], r)

\* The caller is done with the returned schema.
Release ==
    /\ pc = "returned"
    /\ pc' = "idle"
    /\ call' = ""
    /\ input' = NoInput
    /\ result' = NoSchema
    /\ required' = FALSE
    /\ handler_calls' = <<>>
    /\ before' = registry
    /\ UNCHANGED <<opts, registry>>

Next == typing_to_schema \/ function_to_schema \/ ConvertUnionCall \/ Release

Spec == Init /\ [][Next]_vars

(***************************************************************************)
(* Properties.                                                            *)
(***************************************************************************)
IsError(s) == "error" \in DOMAIN s

\* What the caller's type_handler answers for annotation t: a schema, or
\* NoSchema when there is no handler or it returns None.
HandlerSchema(t) ==
    IF opts.type_handler = "none" THEN NoSchema ELSE TypeHandler(opts.type_handler, t)

\* typing_to_schema returned, its argument was of this kind, and the
\* type_handler left the argument itself to the built-in rules.
BuiltinAtRoot(kind) ==
    /\ pc = "returned"
    /\ call = "typing_to_schema"
    /\ input.kind = kind
    /\ HandlerSchema(input) = NoSchema

\* What converting annotation t on its own returns, as the caller reads it.
SchemaOf(t, heap) == Outcome(convert_core(opts, t, Start(heap)))

RequiredOf(t, heap) == convert_core(opts, t, Start(heap)).required

NullSchema == ValueSchema(TypeName("null"))

\* A schema with a "type" that is neither "array" nor "object".
IsScalarValue(s) ==
    "type" \in DOMAIN s /\ s.type \notin {TypeName("array"), TypeName("object")}

RECURSIVE Dedup(_)
\* s without the later repetitions of its elements.
Dedup(s) ==
    IF s = <<>> THEN <<>>
    ELSE LET front == Dedup(SubSeq(s, 1, Len(s) - 1))
         IN  IF s[Len(s)] \in Range(front) THEN front ELSE Append(front, s[Len(s)])

MemberSchemas == [i \in 1..Len(input.args) |-> SchemaOf(input.args[i], before)]

\* C1 (as claimed): a union of two or more members, all of whose schemas are
\* scalar values, converts to one Value whose type lists the members' kinds in
\* member order without duplicates; any other union converts to OneOf over
\* the members' schemas in member order.
C1_UnionCollapseDeduplicated ==
    (BuiltinAtRoot("union") /\ ~IsError(result)) =>
        IF \A i \in 1..Len(input.args) : IsScalarValue(MemberSchemas[i])
        THEN result = ValueSchema(TypeList(Dedup(
                          [i \in 1..Len(input.args) |-> MemberSchemas[i].type])))
        ELSE result = OneOfSchema(MemberSchemas)

\* C2 (as claimed): Union[T, None] is not required and has the schema of T.
C2_OptionalKeepsSchemaOfT ==
    (/\ BuiltinAtRoot("union")
     /\ Len(input.args) = 2
     /\ input.args[2] = NoneType
     /\ ~IsError(result)) =>
        /\ required = FALSE
        /\ result = SchemaOf(input.args[1], before)

\* C2 (amended): Union[T, None] is not required; null stays an alternative of
\* its schema: a Value whose type is the list [type of T's schema, "null"] when
\* T's schema has a type other than "array" and "object", and otherwise
\* OneOf [T's schema, {"type": "null"}].
C2_OptionalAddsNull ==
    (/\ BuiltinAtRoot("union")
     /\ Len(input.args) = 2
     /\ input.args[2] = NoneType
     /\ ~IsError(result)) =>
        /\ required = FALSE
        /\ LET t == SchemaOf(input.args[1], before)
           IN  IF IsScalarValue(t)
               THEN result = ValueSchema(TypeList(<<t.type, TypeName("null")>>))
               ELSE result = OneOfSchema(<<t, NullSchema>>)

\* Optional[str] was converted: its type is ["string", "null"].
C2_Witness ==
    /\ BuiltinAtRoot("union")
    /\ input = UnionOf(<<Str, NoneType>>)
    /\ result = ValueSchema(TypeList(<<TypeName("string"), TypeName("null")>>))
    /\ required = FALSE

\* The names of a properties mapping, in order.
PropertyNames(schema) == [i \in 1..Len(schema.properties) |-> schema.properties[i].name]

FieldNames(record) == [i \in 1..Len(record.fields) |-> record.fields[i].name]

\* A union with None among its members, directly or under Annotated.
PermitsNull(t) ==
    \/ t.kind = "union" /\ NoneType \in Range(t.args)
    \/ /\ t.kind = "annotated"
       /\ t.args[1].kind = "union"
       /\ NoneType \in Range(t.args[1].args)

\* The type_handler returned a schema for t, or for the union t wraps.
HandlerDecides(t) ==
    \/ HandlerSchema(t) # NoSchema
    \/ t.kind = "annotated" /\ HandlerSchema(t.args[1]) # NoSchema

RecordConverted == BuiltinAtRoot("record") /\ ~IsError(result)

PropertiesAreFields ==
    /\ PropertyNames(result) = FieldNames(input)
    /\ \A i \in 1..Len(input.fields) :
          input.fields[i].name \in Range(result.required)
              <=> RequiredOf(input.fields[i].type, before)

\* C3 (as claimed): whatever the hooks, the properties of a record's schema
\* are its fields in declaration order, a field is in `required` exactly when
\* its type converted as required, and no field whose type is a union with
\* None (directly or under Annotated) is in `required`.
C3_NullableNeverRequired ==
    RecordConverted =>
        /\ PropertiesAreFields
        /\ \A i \in 1..Len(input.fields) :
              PermitsNull(input.fields[i].type) =>
                  input.fields[i].name \notin Range(result.required)

\* C3 (amended): the properties of a record's schema are its fields in
\* declaration order and a field is in `required` exactly when its type
\* converted as required; a field whose type is a union with None (directly or
\* under Annotated) is not in `required` unless the type_handler returned a
\* schema for that type or for the union it wraps.
C3_NullableRequiredOnlyByHandler ==
    RecordConverted =>
        /\ PropertiesAreFields
        /\ \A i \in 1..Len(input.fields) :
              (PermitsNull(input.fields[i].type) /\ ~HandlerDecides(input.fields[i].type))
                  => input.fields[i].name \notin Range(result.required)

\* A record {a: int, b: Annotated[str | None, "doc"]} was converted: only a is
\* required.
C3_Witness ==
    /\ RecordConverted
    /\ Len(input.fields) = 2
    /\ input.fields[1].type = Int
    /\ input.fields[2].type = AnnotatedOf(UnionOf(<<Str, NoneType>>), MetaDoc)
    /\ result.required = <<"a">>
    /\ PropertyNames(result) = <<"a", "b">>

\* The parameters that are not skipped, in order.
Kept(params) == SelectSeq(params, LAMBDA p : ~Skipped(p))

ParamNames(params) == [i \in 1..Len(params) |-> params[i].name]

FunctionConverted ==
    /\ pc = "returned"
    /\ call = "function_to_schema" \/ BuiltinAtRoot("function")
    /\ ~IsError(result)

\* C4 (as claimed): every parameter that is not skipped is a property; one
\* with a default carries it as `default` and is not required; one without is
\* required exactly when its type converted as required, and its property
\* schema has no `default`.
C4_DefaultOnlyOnItsParameter ==
    FunctionConverted =>
        LET ps == Kept(input.params)
        IN  /\ PropertyNames(result) = ParamNames(ps)
            /\ \A i \in 1..Len(ps) :
                  LET s == result.properties[i].schema
                  IN  IF ps[i].default # Empty
                      THEN /\ "default" \in DOMAIN s
                           /\ s.default = ps[i].default
                           /\ ps[i].name \notin Range(result.required)
                      ELSE /\ ps[i].name \in Range(result.required)
                                  <=> RequiredOf(TestAnnotation(ps[i]), before)
                           /\ "default" \notin DOMAIN s

RECURSIVE Unmatched(_)
\* Converting t comes to a node that matches no rule: not one the
\* type_handler answers for, nor one below such a node.
Unmatched(t) ==
    IF HandlerSchema(t) # NoSchema THEN FALSE
    ELSE CASE t.kind = "other" -> TRUE
           [] t.kind \in {"union", "array"} ->
                 \E i \in 1..Len(t.args) : Unmatched(t.args[i])
           [] t.kind = "annotated" -> Unmatched(t.args[1])
           [] t.kind = "record" ->
                 \E i \in 1..Len(t.fields) : Unmatched(t.fields[i].type)
           [] t.kind = "function" ->
                 \E i \in 1..Len(t.params) :
                    ~Skipped(t.params[i]) /\ Unmatched(TestAnnotation(t.params[i]))
           [] OTHER -> FALSE

\* The same for the argument of the last call, whichever entry point it was.
InputUnmatched ==
    CASE call = "typing_to_schema" -> Unmatched(input)
      [] call = "function_to_schema" ->
            \E i \in 1..Len(input.params) :
               ~Skipped(input.params[i]) /\ Unmatched(TestAnnotation(input.params[i]))
      [] call = "_convert_union" -> \E i \in 1..Len(input.args) : Unmatched(input.args[i])

IsUnmatchedNode(t) == t.kind = "other" /\ HandlerSchema(t) = NoSchema

\* C5: a conversion that comes to a node no rule matches raises, and returns
\* no schema, when raise_when_unsupported is set; when it is not set no call
\* raises, and the node's schema is {"type": "object"}, required.
C5_UnsupportedPolicy ==
    pc = "returned" =>
        /\ (opts.raise_when_unsupported /\ InputUnmatched) => IsError(result)
        /\ ~opts.raise_when_unsupported => ~IsError(result)
        /\ (~opts.raise_when_unsupported /\ call = "typing_to_schema"
               /\ IsUnmatchedNode(input))
              => result = ObjectSchema /\ required
        /\ (~opts.raise_when_unsupported /\ BuiltinAtRoot("array")
               /\ Len(input.args) = 1 /\ IsUnmatchedNode(input.args[1]))
              => result = ArraySchema(ObjectSchema)
        /\ (~opts.raise_when_unsupported /\ BuiltinAtRoot("record"))
              => \A i \in 1..Len(input.fields) :
                    IsUnmatchedNode(input.fields[i].type) =>
                       /\ result.properties[i].schema = ObjectSchema
                       /\ input.fields[i].name \in Range(result.required)

\* A record whose second field matches no rule was converted with
\* raise_when_unsupported set: the call raised, the first field's schema is lost.
C5_Witness ==
    /\ BuiltinAtRoot("record")
    /\ opts.raise_when_unsupported
    /\ Len(input.fields) = 2
    /\ input.fields[1].type = Int
    /\ input.fields[2].type = TypeVarT
    /\ IsUnmatchedNode(TypeVarT)
    /\ result = [error |-> "Unsupported type"]

\* The first str among the metadata, "" when there is none.
FirstString(meta) ==
    LET at == {i \in 1..Len(meta) : meta[i].py = "str"}
    IN  IF at = {} THEN ""
        ELSE meta[CHOOSE i \in at : \A j \in at : i <= j].repr

\* The text the Annotated rule may attach: the supplied annotated_doc_handler's
\* answer when there is one, otherwise the first str of the metadata.
DocText(meta) ==
    IF opts.annotated_doc_handler = "none" THEN FirstString(meta)
    ELSE IF Truthy(doc_handler(meta)) THEN doc_handler(meta).repr ELSE ""

\* C6: Annotated[T, ...] converts to the schema and the required flag of T; the
\* description is set, to the extractor's text, only when T's schema has none
\* and the text is not empty; a description T's schema already has stays.
C6_AnnotatedDescription ==
    BuiltinAtRoot("annotated") =>
        LET inner == convert_core(opts, input.args[1], Start(before))
            schema == Resolve(inner.schema, inner.heap)
            text == DocText(input.meta)
        IN  IF ~inner.ok THEN IsError(result)
            ELSE /\ required = inner.required
                 /\ result = IF "description" \notin DOMAIN schema /\ text # ""
                             THEN SetItem(schema, "description", text)
                             ELSE schema

\* Annotated[int, 1, "first", "second"] was converted with the built-in
\* extractor: the description is "first".
C6_Witness ==
    /\ BuiltinAtRoot("annotated")
    /\ opts.annotated_doc_handler = "none"
    /\ input = AnnotatedOf(Int, MetaTwo)
    /\ result = [type |-> TypeName("integer"), description |-> "first"]

RECURSIVE Visits(_)
RECURSIVE VisitsEach(_, _)
\* The nodes of t in the order a conversion comes to them: t, then, unless the
\* type_handler answers for t, the nodes of its parts from left to right.
Visits(t) ==
    <<t>> \o
    (IF HandlerSchema(t) # NoSchema THEN <<>>
     ELSE CASE t.kind \in {"union", "array", "annotated"} -> VisitsEach(t.args, 1)
            [] t.kind = "record" ->
                  VisitsEach([i \in 1..Len(t.fields) |-> t.fields[i].type], 1)
            [] t.kind = "function" ->
                  VisitsEach([i \in 1..Len(Kept(t.params)) |->
                                 TestAnnotation(Kept(t.params)[i])], 1)
            [] OTHER -> <<>>)

VisitsEach(ts, i) ==
    IF i > Len(ts) THEN <<>> ELSE Visits(ts[i]) \o VisitsEach(ts, i + 1)

IsPrefix(s, t) == Len(s) <= Len(t) /\ s = SubSeq(t, 1, Len(s))

\* The schema the type_handler gives for t, as the caller reads it now.
HandlerSchemaNow(t) == Resolve(HandlerSchema(t), registry)

\* C7: a supplied type_handler is called on every node a conversion comes to,
\* the argument first and then members, elements, field types, the wrapped
\* type and parameter types in order; where it returns a schema that is the
\* node's schema, nothing below the node is visited, and the node raises
\* nothing.
C7_HandlerFirst ==
    (pc = "returned" /\ call = "typing_to_schema" /\ opts.type_handler # "none") =>
        /\ IF IsError(result) THEN IsPrefix(handler_calls, Visits(input))
           ELSE handler_calls = Visits(input)
        /\ result = [error |-> "Unsupported type"] =>
              IsUnmatchedNode(handler_calls[Len(handler_calls)])
        /\ HandlerSchema(input) # NoSchema =>
              /\ result = HandlerSchemaNow(input)
              /\ required = TRUE
              /\ handler_calls = <<input>>
        /\ (BuiltinAtRoot("array") /\ Len(input.args) = 1
               /\ HandlerSchema(input.args[1]) # NoSchema)
              => result = ArraySchema(HandlerSchemaNow(input.args[1]))
        /\ (BuiltinAtRoot("record") /\ ~IsError(result)) =>
              \A i \in 1..Len(input.fields) :
                 HandlerSchema(input.fields[i].type) # NoSchema =>
                    result.properties[i].schema = HandlerSchemaNow(input.fields[i].type)

\* list[Optional[T]] was converted with a handler that answers for
\* Optional[T] and for T, and with raise_when_unsupported set: the handler saw
\* the list and Optional[T], never T; its schema is the element schema.
C7_Witness ==
    /\ BuiltinAtRoot("array")
    /\ opts.raise_when_unsupported
    /\ input = ArrayOf(<<OptionalT>>)
    /\ HandlerSchema(OptionalT) # NoSchema
    /\ HandlerSchema(TypeVarT) # NoSchema
    /\ handler_calls = <<input, OptionalT>>
    /\ result = ArraySchema(HandlerSchemaNow(OptionalT))

\* C8 (as claimed): a call returns what the same call returns when it is the
\* first one made, whatever calls were made before it.
C8_Deterministic ==
    (pc = "returned" /\ call = "typing_to_schema") =>
        result = SchemaOf(input, InitialRegistry)

SingleMemberCall ==
    /\ pc = "returned"
    /\ call = "_convert_union"
    /\ Len(input.args) = 1
    /\ ~IsError(result)

\* C9 (as claimed): _convert_union on one member returns the member's schema
\* and the member's own required flag.
C9_SingleMemberOwnFlag ==
    SingleMemberCall =>
        /\ result = SchemaOf(input.args[1], before)
        /\ required = RequiredOf(input.args[1], before)

\* C9 (amended): _convert_union on one member returns the member's schema and
\* the flag of the wrapping level: required unless the member is None itself.
\* The member's own flag is ignored.
C9_SingleMemberWrapperFlag ==
    SingleMemberCall =>
        /\ result = SchemaOf(input.args[1], before)
        /\ required = (input.args[1] # NoneType)

\* _convert_union((Optional[int],)) returned required although Optional[int]
\* itself converts as not required.
C9_Witness ==
    /\ SingleMemberCall
    /\ input.args = <<UnionOf(<<Int, NoneType>>)>>
    /\ required = TRUE
    /\ RequiredOf(input.args[1], before) = FALSE

ScalarKinds == {"string", "integer", "number", "boolean", "null"}

RECURSIVE ScalarTypeLists(_)
\* Every "type" that is a list, in s and in the schemas s holds, lists names
\* of scalar kinds only.
ScalarTypeLists(s) ==
    /\ ("type" \in DOMAIN s /\ s.type.isList) =>
          \A i \in 1..Len(s.type.items) :
             ~s.type.items[i].isList /\ s.type.items[i].name \in ScalarKinds
    /\ "items" \in DOMAIN s => ScalarTypeLists(s.items)
    /\ "oneOf" \in DOMAIN s => \A i \in 1..Len(s.oneOf) : ScalarTypeLists(s.oneOf[i])
    /\ "properties" \in DOMAIN s =>
          \A i \in 1..Len(s.properties) : ScalarTypeLists(s.properties[i].schema)

\* C10 (as claimed): in every schema returned, at every depth, a "type" that
\* is a list holds names of scalar kinds only, never a list.
C10_TypeListsAreFlat ==
    (pc = "returned" /\ ~IsError(result)) => ScalarTypeLists(result)

\* C11 (as claimed): when a call returns, every schema the type_handler handed
\* out during the call is as it was when the call began.
C11_HookSchemasUnchanged ==
    pc = "returned" => registry = before

====
